---- MODULE Spec2Model ----
(***************************************************************************)
(* streampulse: src/app/main.py.  A FastAPI service that keeps three       *)
(* per-tenant aggregates in Redis (minute counters, daily distinct-user    *)
(* HyperLogLogs, an all-time top-paths sorted set) and exposes them        *)
(* through /ingest, /stats and /top-paths, with Prometheus metrics.        *)
(*                                                                         *)
(* Each request runs in a worker slot; every Redis call of a handler is    *)
(* one atomic step, so the steps of concurrent requests interleave.  A     *)
(* Redis call may raise (connection error): the call then has no effect    *)
(* on the store and the handler's except/finally blocks run.               *)
(*                                                                         *)
(* Spec serves requests of all three kinds one at a time (a pool of one    *)
(* worker); SpecConc runs ingest requests on two workers, so that their    *)
(* Redis calls interleave.                                                 *)
(*                                                                         *)
(* Abstractions: a HyperLogLog is the exact set of members added; sorted   *)
(* set scores are integers (the code only ever adds 1); a latency          *)
(* histogram is the number of observations per label.                      *)
(***************************************************************************)
EXTENDS Integers, Sequences, FiniteSets, TLC

\* ------------------------------------------------------------ bounds
MaxReqs == 3
MaxFails == 1

\* ------------------------------------------------- program constants
CNT_TTL == 3600
HLL_TTL == 172800
DEFAULT_N == 10

\* ------------------------------------------------------ input sets
Procs == {1, 2}
Tenants == {"a", "b"}
\* paths in lexicographic order (Redis breaks score ties lexicographically)
PathsLex == <<"/x", "/y">>
Paths == {PathsLex[i] : i \in 1..Len(PathsLex)}

\* the server clock at start: 2023-11-14 22:13:20 UTC
BaseTime == 1700000 * 1000

\* A Python int timestamp, held as divmod(ts, 86400): whole days since the
\* epoch and second of the day (Python ints are unbounded, TLC's are 32 bits)
TsOf(n) == [d |-> n \div 86400, s |-> n % 86400]
\* 253402300800: one second past 9999-12-31 23:59:59 UTC
HugeTs == [d |-> 2932897, s |-> 0]
\* the clock values of the model: the start, and one hour later, when the minute
\* counters written at the start have expired and the daily sets have not
ClockValues == {BaseTime, BaseTime + CNT_TTL}

\* Event(BaseModel): tenant, user, path, ts: int | None  (hasTs = FALSE is None)
Events ==
    { [tenant |-> "a", user |-> "u1", path |-> "/x", hasTs |-> TRUE, ts |-> TsOf(BaseTime)],
      [tenant |-> "a", user |-> "u2", path |-> "/x", hasTs |-> TRUE, ts |-> TsOf(BaseTime + 5)],
      [tenant |-> "b", user |-> "u1", path |-> "/x", hasTs |-> FALSE, ts |-> TsOf(0)],
      [tenant |-> "b", user |-> "u2", path |-> "/y", hasTs |-> TRUE, ts |-> TsOf(0)],
      [tenant |-> "a", user |-> "u1", path |-> "/y", hasTs |-> TRUE, ts |-> TsOf(-1)],
      [tenant |-> "b", user |-> "u1", path |-> "/y", hasTs |-> TRUE, ts |-> HugeTs] }
\* the events of the concurrent runs: two of one tenant and minute, one of
\* another tenant at server time, one that utc_minute_key rejects
ConcEvents == {e \in Events : e.path = "/x" \/ e.ts = HugeTs}
\* /top-paths queries: tenant and the n parameter
TopQueries == ({"a"} \X {-1, 0, 1, DEFAULT_N}) \cup {<<"b", DEFAULT_N>>}

\* ---------------------------------------------------------- state
VARIABLES
    now,              \* time.time(), whole seconds
    db,               \* the Redis keyspace: key -> [type, val, exp]
    HTTP_REQS,        \* Counter http_requests_total[route, method, status]
    HTTP_LAT,         \* Histogram http_request_duration_seconds[route]: observations
    EVENTS_INGESTED,  \* Counter events_ingested_total[tenant]
    REDIS_OPS,        \* Counter redis_ops_total[op]
    REDIS_LAT,        \* Histogram redis_latency_seconds[op]: observations
    pc,               \* per slot: the handler's position
    ev,               \* per slot: the request's arguments
    loc,              \* per slot: the handler's locals (ts / now, cnt)
    resp,             \* per slot: status and body of the response
    calls,            \* per slot: the Redis calls the request has issued, in order
    workers,          \* size of the worker thread pool
    nreq,             \* requests started
    nfail,            \* Redis calls that raised
    opsAttempted,     \* per op label: instrumented store operations begun
    incrDone,         \* per key: r.incr calls executed
    zincrDone,        \* per <<tenant, path>>: r.zincrby calls executed
    ingestOk,         \* per <<tenant, k_cnt>>: ingests that returned 200
    expiredKeys,      \* keys Redis has expired
    httpReturned,     \* per <<route, status>>: responses sent
    lastRead          \* the last 200 response of stats / top-paths, while no other request has followed it

metricVars == <<HTTP_REQS, HTTP_LAT, EVENTS_INGESTED, REDIS_OPS, REDIS_LAT>>
slotVars == <<pc, ev, loc, resp, calls>>
histVars == <<opsAttempted, incrDone, zincrDone, ingestOk, httpReturned>>
vars == <<now, db, metricVars, slotVars, workers, nreq, nfail, histVars, expiredKeys, lastRead>>

\* ------------------------------------------------ time-window keys
Digit(d) == <<"0", "1", "2", "3", "4", "5", "6", "7", "8", "9">>[d + 1]

RECURSIVE IntToStr(_)
\* str(n) for n >= 0
IntToStr(n) == IF n < 10 THEN Digit(n) ELSE IntToStr(n \div 10) \o Digit(n % 10)

\* int(s) for a decimal string s
StrToInt(s) == CHOOSE n \in 0..99 : IntToStr(n) = s

Pad2(n) == Digit(n \div 10) \o Digit(n % 10)
Pad4(n) == Pad2(n \div 100) \o Pad2(n % 100)

\* datetime.fromtimestamp(ts, tz=timezone.utc): the proleptic Gregorian
\* calendar date and the time of day of ts
CivilFromTs(ts) ==
    LET days == ts.d
        secs == ts.s
        z    == days + 719468
        era  == z \div 146097
        doe  == z - era * 146097
        yoe  == (doe - doe \div 1460 + doe \div 36524 - doe \div 146096) \div 365
        doy  == doe - (365 * yoe + yoe \div 4 - yoe \div 100)
        mp   == (5 * doy + 2) \div 153
        d    == doy - (153 * mp + 2) \div 5 + 1
        m    == IF mp < 10 THEN mp + 3 ELSE mp - 9
        y    == yoe + era * 400 + (IF m <= 2 THEN 1 ELSE 0)
    IN [year |-> y, month |-> m, day |-> d,
        hour |-> secs \div 3600, minute |-> (secs % 3600) \div 60]

\* datetime.fromtimestamp raises (ValueError / OverflowError) outside years 1..9999
TsInRange(ts) == CivilFromTs(ts).year \in 1..9999

\* strftime("%Y%m%d")
DayKey(ts) ==
    LET c == CivilFromTs(ts) IN Pad4(c.year) \o Pad2(c.month) \o Pad2(c.day)

\* strftime("%Y%m%d-%H%M")
utc_minute_key(ts) ==
    LET c == CivilFromTs(ts)
    IN Pad4(c.year) \o Pad2(c.month) \o Pad2(c.day) \o "-" \o Pad2(c.hour) \o Pad2(c.minute)

\* ts = ev.ts or int(time.time()): None and 0 are both falsy
IngestTs(e, clock) == IF e.hasTs /\ e.ts # TsOf(0) THEN e.ts ELSE TsOf(clock)

KCnt(tenant, ts) == "events:tenant:" \o tenant \o ":minute:" \o utc_minute_key(ts)
KHllWrite(tenant, ts) == "users:tenant:" \o tenant \o ":day:" \o DayKey(ts)
\* KHllRead with the prefix ingest writes under
KHllRead_UsersPrefix(tenant, ts) == "users:tenant:" \o tenant \o ":day:" \o DayKey(ts)
\* line 99: the key stats reads
KHllRead(tenant, ts) == "uusers:tenant:" \o tenant \o ":day:" \o DayKey(ts)
\* KTop without the tenant: one ranking shared by all tenants
KTop_Shared(tenant) == "top_paths:tenant:"
KTop(tenant) == "top_paths:tenant:" \o tenant

\* ------------------------------------------------------ Redis
NoExpiry == -1
None == "None"

\* RedisIncr with SET semantics on an existing key: the increment is dropped
RedisIncr_NoAdd(d, k) ==
    IF k \in DOMAIN d
    THEN d
    ELSE d @@ (k :> [type |-> "string", val |-> 1, exp |-> NoExpiry])

\* INCR key
RedisIncr(d, k) ==
    IF k \in DOMAIN d
    THEN [d EXCEPT ![k].val = @ + 1]
    ELSE d @@ (k :> [type |-> "string", val |-> 1, exp |-> NoExpiry])

\* EXPIRE key seconds (no effect on an absent key)
RedisExpire(d, k, ttl, clock) ==
    IF k \in DOMAIN d THEN [d EXCEPT ![k].exp = clock + ttl] ELSE d

\* PFADD key member
RedisPfadd(d, k, m) ==
    IF k \in DOMAIN d
    THEN [d EXCEPT ![k].val = @ \cup {m}]
    ELSE d @@ (k :> [type |-> "hll", val |-> {m}, exp |-> NoExpiry])

\* PFCOUNT key
RedisPfcount(d, k) == IF k \in DOMAIN d THEN Cardinality(d[k].val) ELSE 0

\* RedisZincrby that overwrites the score of an existing member (ZADD)
RedisZincrby_Overwrite(d, k, amount, m) ==
    IF k \in DOMAIN d
    THEN IF m \in DOMAIN d[k].val
         THEN [d EXCEPT ![k].val[m] = amount]
         ELSE [d EXCEPT ![k].val = @ @@ (m :> amount)]
    ELSE d @@ (k :> [type |-> "zset", val |-> (m :> amount), exp |-> NoExpiry])

\* RedisZincrby that creates the ranking with the counter's time to live
RedisZincrby_Expiring(d, k, amount, m) ==
    IF k \in DOMAIN d
    THEN IF m \in DOMAIN d[k].val
         THEN [d EXCEPT ![k].val[m] = @ + amount]
         ELSE [d EXCEPT ![k].val = @ @@ (m :> amount)]
    ELSE d @@ (k :> [type |-> "zset", val |-> (m :> amount), exp |-> BaseTime + CNT_TTL])

\* ZINCRBY key amount member
RedisZincrby(d, k, amount, m) ==
    IF k \in DOMAIN d
    THEN IF m \in DOMAIN d[k].val
         THEN [d EXCEPT ![k].val[m] = @ + amount]
         ELSE [d EXCEPT ![k].val = @ @@ (m :> amount)]
    ELSE d @@ (k :> [type |-> "zset", val |-> (m :> amount), exp |-> NoExpiry])

\* GET key with decode_responses=True: the decimal string, or None
RedisGet(d, k) == IF k \in DOMAIN d THEN IntToStr(d[k].val) ELSE None

PathRank(p) == CHOOSE i \in 1..Len(PathsLex) : PathsLex[i] = p

\* the member ZREVRANGE lists first: highest score, ties by highest member
ZTop(z, S) ==
    CHOOSE m \in S : \A o \in S :
        \/ z[m] > z[o]
        \/ z[m] = z[o] /\ PathRank(m) >= PathRank(o)

RECURSIVE ZDesc(_, _)
ZDesc(z, S) ==
    IF S = {} THEN <<>>
    ELSE LET m == ZTop(z, S) IN <<<<m, z[m]>>>> \o ZDesc(z, S \ {m})

\* ZREVRANGE key start stop WITHSCORES
RedisZrevrange(d, k, start, stop) ==
    IF k \notin DOMAIN d THEN <<>>
    ELSE LET all == ZDesc(d[k].val, DOMAIN d[k].val)
             len == Len(all)
             s0  == IF start < 0 THEN start + len ELSE start
             e0  == IF stop < 0 THEN stop + len ELSE stop
             s   == IF s0 < 0 THEN 0 ELSE s0
             e   == IF e0 >= len THEN len - 1 ELSE e0
         IN IF s > e \/ s >= len THEN <<>> ELSE SubSeq(all, s + 1, e + 1)

\* keys whose expiry time has been reached are gone
Expired(d, clock) == {k \in DOMAIN d : d[k].exp # NoExpiry /\ d[k].exp <= clock}
Purge(d, clock) == [k \in DOMAIN d \ Expired(d, clock) |-> d[k]]

\* --------------------------------------------------- bookkeeping
Bump(f, x) == IF x \in DOMAIN f THEN [f EXCEPT ![x] = @ + 1] ELSE f @@ (x :> 1)
Count(f, x) == IF x \in DOMAIN f THEN f[x] ELSE 0

Routes == {"/ingest", "/stats", "/top-paths"}
Method(route) == IF route = "/ingest" THEN "POST" ELSE "GET"
OpLabels == {"incr_expire", "pfadd", "zincrby", "get", "pfcount", "zrevrange"}

\* the pc values at which a handler is about to issue a Redis call
IngestPcs == {"incr", "expire_cnt", "pfadd", "expire_hll", "zincrby"}
StatsPcs == {"get", "pfcount"}
TopPcs == {"zrevrange"}
Free(p) == pc[p] \in {"idle", "done"}
\* worker slots are interchangeable: a new request takes the lowest free one
Takes(p) == p <= workers /\ Free(p) /\ \A q \in Procs : q < p => ~Free(q)

NoLoc == [ts |-> TsOf(0), cnt |-> None]
Pending == [status |-> "200", body |-> <<>>]
\* HTTPException(status_code=500, detail=str(e))
ErrorBody(e) == [detail |-> e]

\* Finally when the except block forgets status = "500"
Finally_Always200(route, status) ==
    /\ HTTP_REQS' = [HTTP_REQS EXCEPT ![<<route, Method(route), "200">>] = @ + 1]
    /\ HTTP_LAT' = [HTTP_LAT EXCEPT ![route] = @ + 1]

\* finally: HTTP_REQS.labels(route, method, status).inc(); HTTP_LAT.labels(route).observe(..)
Finally(route, status) ==
    /\ HTTP_REQS' = [HTTP_REQS EXCEPT ![<<route, Method(route), status>>] = @ + 1]
    /\ HTTP_LAT' = [HTTP_LAT EXCEPT ![route] = @ + 1]

\* the response leaves the handler: return (200) or HTTPException (500)
Respond(p, route, status, body) ==
    /\ resp' = [resp EXCEPT ![p] = [status |-> status, body |-> body]]
    /\ httpReturned' = Bump(httpReturned, <<route, status>>)

\* REDIS_OPS.labels(op).inc(); REDIS_LAT.labels(op).observe(..)
RecordOp(op) ==
    /\ REDIS_OPS' = [REDIS_OPS EXCEPT ![op] = @ + 1]
    /\ REDIS_LAT' = [REDIS_LAT EXCEPT ![op] = @ + 1]

\* the state at startup, with a pool of w worker threads
\* no read has been answered, or another request or a clock tick has followed it
NoRead == [kind |-> "none"]
\* the last answered read was this request: same handler, same arguments,
\* same server minute ("" for top-paths, which reads no clock)
SameRead(kind, tenant, n, minute) ==
    /\ lastRead.kind = kind
    /\ lastRead.tenant = tenant
    /\ lastRead.n = n
    /\ lastRead.minute = minute
\* a read answered 200; seen counts the consecutive answers to this request
ReadAnswered(kind, tenant, n, minute, body) ==
    [kind |-> kind, tenant |-> tenant, n |-> n, minute |-> minute, body |-> body,
     seen |-> IF SameRead(kind, tenant, n, minute) THEN lastRead.seen + 1 ELSE 1]

InitWith(w) ==
    /\ now = BaseTime
    /\ db = <<>>
    /\ HTTP_REQS = [l \in Routes \X {"GET", "POST"} \X {"200", "500"} |-> 0]
    /\ HTTP_LAT = [r \in Routes |-> 0]
    /\ EVENTS_INGESTED = [t \in Tenants |-> 0]
    /\ REDIS_OPS = [o \in OpLabels |-> 0]
    /\ REDIS_LAT = [o \in OpLabels |-> 0]
    /\ pc = [p \in Procs |-> "idle"]
    /\ ev = [p \in Procs |-> [kind |-> "none"]]
    /\ loc = [p \in Procs |-> NoLoc]
    /\ resp = [p \in Procs |-> Pending]
    /\ calls = [p \in Procs |-> <<>>]
    /\ workers = w
    /\ nreq = 0
    /\ nfail = 0
    /\ opsAttempted = [o \in OpLabels |-> 0]
    /\ incrDone = <<>>
    /\ zincrDone = <<>>
    /\ ingestOk = <<>>
    /\ expiredKeys = {}
    /\ httpReturned = <<>>
    /\ lastRead = NoRead

\* requests served one at a time
Init == InitWith(1)
\* two requests may be in flight at once
InitConc == InitWith(2)

\* ------------------------------------------------------ POST /ingest
\* lines 45-58: the locals; utc_minute_key raises for a ts outside datetime's range
IngestBegin(p, e) ==
    /\ Takes(p)
    /\ nreq < MaxReqs
    /\ nreq' = nreq + 1
    /\ ev' = [ev EXCEPT ![p] = [kind |-> "ingest", tenant |-> e.tenant, user |-> e.user,
                                path |-> e.path, hasTs |-> e.hasTs, ts |-> e.ts]]
    /\ calls' = [calls EXCEPT ![p] = <<>>]
    /\ loc' = [loc EXCEPT ![p] = [ts |-> IngestTs(e, now), cnt |-> None]]
    /\ \/ /\ TsInRange(IngestTs(e, now))
          /\ pc' = [pc EXCEPT ![p] = "incr"]
          /\ resp' = [resp EXCEPT ![p] = Pending]
          /\ UNCHANGED <<metricVars, httpReturned>>
       \/ /\ ~TsInRange(IngestTs(e, now))
          /\ pc' = [pc EXCEPT ![p] = "done"]
          /\ Respond(p, "/ingest", "500", ErrorBody("ValueError"))
          /\ Finally("/ingest", "500")
          /\ UNCHANGED <<EVENTS_INGESTED, REDIS_OPS, REDIS_LAT>>
    /\ UNCHANGED <<now, db, workers, nfail, opsAttempted, incrDone, zincrDone,
                   ingestOk, expiredKeys>>
    /\ lastRead' = NoRead

\* line 61: r.incr(k_cnt)
IngestIncr(p) ==
    /\ pc[p] = "incr"
    /\ db' = RedisIncr(db, KCnt(ev[p].tenant, loc[p].ts))
    /\ incrDone' = Bump(incrDone, KCnt(ev[p].tenant, loc[p].ts))
    /\ opsAttempted' = [opsAttempted EXCEPT !["incr_expire"] = @ + 1]
    /\ calls' = [calls EXCEPT ![p] = Append(@, "incr")]
    /\ pc' = [pc EXCEPT ![p] = "expire_cnt"]
    /\ UNCHANGED <<now, metricVars, ev, loc, resp, nreq, nfail, workers, zincrDone,
                   ingestOk, expiredKeys, httpReturned>>
    /\ lastRead' = NoRead

\* lines 62-64: r.expire(k_cnt, 60*60), then the op's metrics
IngestExpireCnt(p) ==
    /\ pc[p] = "expire_cnt"
    /\ db' = RedisExpire(db, KCnt(ev[p].tenant, loc[p].ts), CNT_TTL, now)
    /\ RecordOp("incr_expire")
    /\ calls' = [calls EXCEPT ![p] = Append(@, "expire_cnt")]
    /\ pc' = [pc EXCEPT ![p] = "pfadd"]
    /\ UNCHANGED <<now, HTTP_REQS, HTTP_LAT, EVENTS_INGESTED, ev, loc, resp, nreq, nfail, workers,
                   histVars, expiredKeys>>
    /\ lastRead' = NoRead

\* line 67: r.pfadd(k_hll, ev.user)
IngestPfadd(p) ==
    /\ pc[p] = "pfadd"
    /\ db' = RedisPfadd(db, KHllWrite(ev[p].tenant, loc[p].ts), ev[p].user)
    /\ opsAttempted' = [opsAttempted EXCEPT !["pfadd"] = @ + 1]
    /\ calls' = [calls EXCEPT ![p] = Append(@, "pfadd")]
    /\ pc' = [pc EXCEPT ![p] = "expire_hll"]
    /\ UNCHANGED <<now, metricVars, ev, loc, resp, nreq, nfail, workers, incrDone,
                   zincrDone, ingestOk, expiredKeys, httpReturned>>
    /\ lastRead' = NoRead

\* lines 68-70: r.expire(k_hll, 48*3600), then the op's metrics
IngestExpireHll(p) ==
    /\ pc[p] = "expire_hll"
    /\ db' = RedisExpire(db, KHllWrite(ev[p].tenant, loc[p].ts), HLL_TTL, now)
    /\ RecordOp("pfadd")
    /\ calls' = [calls EXCEPT ![p] = Append(@, "expire_hll")]
    /\ pc' = [pc EXCEPT ![p] = "zincrby"]
    /\ UNCHANGED <<now, HTTP_REQS, HTTP_LAT, EVENTS_INGESTED, ev, loc, resp, nreq, nfail, workers,
                   histVars, expiredKeys>>
    /\ lastRead' = NoRead

\* lines 73-78 and the finally block: r.zincrby(k_top, 1, ev.path), the op's
\* metrics, EVENTS_INGESTED, return {"ok": True}
IngestZincrby(p) ==
    /\ pc[p] = "zincrby"
    /\ db' = RedisZincrby(db, KTop(ev[p].tenant), 1, ev[p].path)
    /\ zincrDone' = Bump(zincrDone, <<ev[p].tenant, ev[p].path>>)
    /\ opsAttempted' = [opsAttempted EXCEPT !["zincrby"] = @ + 1]
    /\ RecordOp("zincrby")
    /\ EVENTS_INGESTED' = [EVENTS_INGESTED EXCEPT ![ev[p].tenant] = @ + 1]
    /\ calls' = [calls EXCEPT ![p] = Append(@, "zincrby")]
    /\ Respond(p, "/ingest", "200", [ok |-> TRUE])
    /\ ingestOk' = Bump(ingestOk, <<ev[p].tenant, KCnt(ev[p].tenant, loc[p].ts)>>)
    /\ Finally("/ingest", "200")
    /\ pc' = [pc EXCEPT ![p] = "done"]
    /\ UNCHANGED <<now, ev, loc, nreq, nfail, workers, incrDone, expiredKeys>>
    /\ lastRead' = NoRead

\* the op label whose instrumented block begins with the call at pc
OpBegunAt(at) ==
    CASE at = "incr" -> "incr_expire"
      [] at \in {"pfadd", "zincrby", "get", "pfcount", "zrevrange"} -> at
      [] OTHER -> None

\* Raise with a compensating rollback of the request's minute counter
Raise_Rollback(p, route) ==
    /\ nfail < MaxFails
    /\ nfail' = nfail + 1
    /\ calls' = [calls EXCEPT ![p] = Append(@, pc[p])]
    /\ opsAttempted' = IF OpBegunAt(pc[p]) = None THEN opsAttempted
                       ELSE [opsAttempted EXCEPT ![OpBegunAt(pc[p])] = @ + 1]
    /\ Respond(p, route, "500", ErrorBody("ConnectionError"))
    /\ Finally(route, "500")
    /\ pc' = [pc EXCEPT ![p] = "done"]
    /\ db' = [k \in DOMAIN db \ {KCnt(ev[p].tenant, loc[p].ts)} |-> db[k]]
    /\ UNCHANGED <<now, EVENTS_INGESTED, REDIS_OPS, REDIS_LAT, ev, loc, nreq, workers,
                   incrDone, zincrDone, ingestOk, expiredKeys>>
    /\ lastRead' = NoRead

\* Raise that still counts the event as ingested
Raise_CountsEvent(p, route) ==
    /\ nfail < MaxFails
    /\ nfail' = nfail + 1
    /\ calls' = [calls EXCEPT ![p] = Append(@, pc[p])]
    /\ opsAttempted' = IF OpBegunAt(pc[p]) = None THEN opsAttempted
                       ELSE [opsAttempted EXCEPT ![OpBegunAt(pc[p])] = @ + 1]
    /\ Respond(p, route, "500", ErrorBody("ConnectionError"))
    /\ Finally(route, "500")
    /\ EVENTS_INGESTED' = [EVENTS_INGESTED EXCEPT ![ev[p].tenant] = @ + 1]
    /\ pc' = [pc EXCEPT ![p] = "done"]
    /\ UNCHANGED <<now, db, REDIS_OPS, REDIS_LAT, ev, loc, nreq, workers,
                   incrDone, zincrDone, ingestOk, expiredKeys>>
    /\ UNCHANGED lastRead

\* Raise that swallows the exception and answers success
Raise_Swallow(p, route) ==
    /\ nfail < MaxFails
    /\ nfail' = nfail + 1
    /\ calls' = [calls EXCEPT ![p] = Append(@, pc[p])]
    /\ opsAttempted' = IF OpBegunAt(pc[p]) = None THEN opsAttempted
                       ELSE [opsAttempted EXCEPT ![OpBegunAt(pc[p])] = @ + 1]
    /\ Respond(p, route, "200", [ok |-> TRUE])
    /\ Finally(route, "200")
    /\ pc' = [pc EXCEPT ![p] = "done"]
    /\ UNCHANGED <<now, db, EVENTS_INGESTED, REDIS_OPS, REDIS_LAT, ev, loc, nreq, workers,
                   incrDone, zincrDone, ingestOk, expiredKeys>>
    /\ UNCHANGED lastRead

\* a Redis call raises: lines 79-84, 112-117, 134-139 (except, then finally)
Raise(p, route) ==
    /\ nfail < MaxFails
    /\ nfail' = nfail + 1
    /\ calls' = [calls EXCEPT ![p] = Append(@, pc[p])]
    /\ opsAttempted' = IF OpBegunAt(pc[p]) = None THEN opsAttempted
                       ELSE [opsAttempted EXCEPT ![OpBegunAt(pc[p])] = @ + 1]
    /\ Respond(p, route, "500", ErrorBody("ConnectionError"))
    /\ Finally(route, "500")
    /\ pc' = [pc EXCEPT ![p] = "done"]
    /\ UNCHANGED <<now, db, EVENTS_INGESTED, REDIS_OPS, REDIS_LAT, ev, loc, nreq, workers,
                   incrDone, zincrDone, ingestOk, expiredKeys>>
    /\ UNCHANGED lastRead

IngestFail(p) ==
    /\ pc[p] \in IngestPcs
    /\ Raise(p, "/ingest")

\* StatsBegin with the clock sampled once, when the module was loaded
StatsBegin_Stale(p, tenant) ==
    /\ Takes(p)
    /\ nreq < MaxReqs
    /\ nreq' = nreq + 1
    /\ ev' = [ev EXCEPT ![p] = [kind |-> "stats", tenant |-> tenant]]
    /\ loc' = [loc EXCEPT ![p] = [ts |-> TsOf(BaseTime), cnt |-> None]]
    /\ calls' = [calls EXCEPT ![p] = <<>>]
    /\ resp' = [resp EXCEPT ![p] = Pending]
    /\ pc' = [pc EXCEPT ![p] = "get"]
    /\ UNCHANGED <<now, db, metricVars, workers, nfail, histVars, expiredKeys>>
    /\ lastRead' = IF SameRead("stats", tenant, 0, utc_minute_key(TsOf(BaseTime)))
                    THEN lastRead ELSE NoRead

\* -------------------------------------------------------- GET /stats
\* lines 89-99: now = int(time.time()) and the keys
StatsBegin(p, tenant) ==
    /\ Takes(p)
    /\ nreq < MaxReqs
    /\ nreq' = nreq + 1
    /\ ev' = [ev EXCEPT ![p] = [kind |-> "stats", tenant |-> tenant]]
    /\ loc' = [loc EXCEPT ![p] = [ts |-> TsOf(now), cnt |-> None]]
    /\ calls' = [calls EXCEPT ![p] = <<>>]
    /\ resp' = [resp EXCEPT ![p] = Pending]
    /\ pc' = [pc EXCEPT ![p] = "get"]
    /\ UNCHANGED <<now, db, metricVars, workers, nfail, histVars, expiredKeys>>
    /\ lastRead' = IF SameRead("stats", tenant, 0, utc_minute_key(TsOf(now)))
                    THEN lastRead ELSE NoRead

\* OrZero with the wrong default
OrZero_One(v) == IF v = None \/ v = "" THEN "1" ELSE v

\* cnt = r.get(k_cnt) or "0": None and "" are falsy
OrZero(v) == IF v = None \/ v = "" THEN "0" ELSE v

\* StatsGet that consumes the counter it reads (GETDEL)
StatsGet_Consuming(p) ==
    /\ pc[p] = "get"
    /\ loc' = [loc EXCEPT ![p].cnt = OrZero(RedisGet(db, KCnt(ev[p].tenant, loc[p].ts)))]
    /\ db' = [k \in DOMAIN db \ {KCnt(ev[p].tenant, loc[p].ts)} |-> db[k]]
    /\ opsAttempted' = [opsAttempted EXCEPT !["get"] = @ + 1]
    /\ RecordOp("get")
    /\ calls' = [calls EXCEPT ![p] = Append(@, "get")]
    /\ pc' = [pc EXCEPT ![p] = "pfcount"]
    /\ UNCHANGED <<now, HTTP_REQS, HTTP_LAT, EVENTS_INGESTED, ev, resp, nreq, nfail, workers,
                   incrDone, zincrDone, ingestOk, expiredKeys, httpReturned>>
    /\ UNCHANGED lastRead

\* lines 102-104
StatsGet(p) ==
    /\ pc[p] = "get"
    /\ loc' = [loc EXCEPT ![p].cnt = OrZero(RedisGet(db, KCnt(ev[p].tenant, loc[p].ts)))]
    /\ opsAttempted' = [opsAttempted EXCEPT !["get"] = @ + 1]
    /\ RecordOp("get")
    /\ calls' = [calls EXCEPT ![p] = Append(@, "get")]
    /\ pc' = [pc EXCEPT ![p] = "pfcount"]
    /\ UNCHANGED <<now, db, HTTP_REQS, HTTP_LAT, EVENTS_INGESTED, ev, resp, nreq, nfail, workers,
                   incrDone, zincrDone, ingestOk, expiredKeys, httpReturned>>
    /\ UNCHANGED lastRead

\* line 111: the response body
StatsBody(tenant, ts, cnt, u) ==
    [tenant |-> tenant, minute |-> utc_minute_key(ts),
     events_this_minure |-> StrToInt(cnt), unique_users_today |-> u]

\* lines 107-111 and the finally block
StatsPfcount(p) ==
    /\ pc[p] = "pfcount"
    /\ Respond(p, "/stats", "200",
               StatsBody(ev[p].tenant, loc[p].ts, loc[p].cnt,
                         RedisPfcount(db, KHllRead(ev[p].tenant, loc[p].ts))))
    /\ opsAttempted' = [opsAttempted EXCEPT !["pfcount"] = @ + 1]
    /\ RecordOp("pfcount")
    /\ calls' = [calls EXCEPT ![p] = Append(@, "pfcount")]
    /\ Finally("/stats", "200")
    /\ pc' = [pc EXCEPT ![p] = "done"]
    /\ UNCHANGED <<now, db, EVENTS_INGESTED, ev, loc, nreq, nfail, workers, incrDone,
                   zincrDone, ingestOk, expiredKeys>>
    /\ lastRead' = ReadAnswered("stats", ev[p].tenant, 0, utc_minute_key(loc[p].ts), resp'[p].body)

StatsFail(p) ==
    /\ pc[p] \in StatsPcs
    /\ Raise(p, "/stats")

\* ---------------------------------------------------- GET /top-paths
\* lines 121-126
TopBegin(p, tenant, n) ==
    /\ Takes(p)
    /\ nreq < MaxReqs
    /\ nreq' = nreq + 1
    /\ ev' = [ev EXCEPT ![p] = [kind |-> "top", tenant |-> tenant, n |-> n]]
    /\ loc' = [loc EXCEPT ![p] = NoLoc]
    /\ calls' = [calls EXCEPT ![p] = <<>>]
    /\ resp' = [resp EXCEPT ![p] = Pending]
    /\ pc' = [pc EXCEPT ![p] = "zrevrange"]
    /\ UNCHANGED <<now, db, metricVars, workers, nfail, histVars, expiredKeys>>
    /\ lastRead' = IF SameRead("top", tenant, n, "") THEN lastRead ELSE NoRead

\* max(n-1, 0)
TopStop(n) == IF n - 1 > 0 THEN n - 1 ELSE 0

\* line 128: r.zrevrange(k_top, 0, max(n-1, 0), withscores=True) or list()
TopItems(d, tenant, n) == RedisZrevrange(d, KTop(tenant), 0, TopStop(n))

\* line 132: [{"path": p, "count": int(c)} for p, c in items]
TopBody(items) == [i \in 1..Len(items) |-> [path |-> items[i][1], count |-> items[i][2]]]

\* lines 128-132 and the finally block
TopZrevrange(p) ==
    /\ pc[p] = "zrevrange"
    /\ Respond(p, "/top-paths", "200", TopBody(TopItems(db, ev[p].tenant, ev[p].n)))
    /\ opsAttempted' = [opsAttempted EXCEPT !["zrevrange"] = @ + 1]
    /\ RecordOp("zrevrange")
    /\ calls' = [calls EXCEPT ![p] = Append(@, "zrevrange")]
    /\ Finally("/top-paths", "200")
    /\ pc' = [pc EXCEPT ![p] = "done"]
    /\ UNCHANGED <<now, db, EVENTS_INGESTED, ev, loc, nreq, nfail, workers, incrDone,
                   zincrDone, ingestOk, expiredKeys>>
    /\ lastRead' = ReadAnswered("top", ev[p].tenant, ev[p].n, "", resp'[p].body)

TopFail(p) ==
    /\ pc[p] \in TopPcs
    /\ Raise(p, "/top-paths")

\* --------------------------------------------------------- the clock
\* time passes; Redis drops the keys whose expiry time is reached
Tick(t) ==
    /\ t > now
    /\ now' = t
    /\ db' = Purge(db, t)
    /\ expiredKeys' = expiredKeys \cup Expired(db, t)
    /\ UNCHANGED <<metricVars, slotVars, workers, nreq, nfail, histVars>>
    /\ lastRead' = NoRead

Next ==
    \/ \E p \in Procs, e \in Events : IngestBegin(p, e)
    \/ \E p \in Procs : IngestIncr(p)
    \/ \E p \in Procs : IngestExpireCnt(p)
    \/ \E p \in Procs : IngestPfadd(p)
    \/ \E p \in Procs : IngestExpireHll(p)
    \/ \E p \in Procs : IngestZincrby(p)
    \/ \E p \in Procs : IngestFail(p)
    \/ \E p \in Procs, t \in Tenants : StatsBegin(p, t)
    \/ \E p \in Procs : StatsGet(p)
    \/ \E p \in Procs : StatsPfcount(p)
    \/ \E p \in Procs : StatsFail(p)
    \/ \E p \in Procs, q \in TopQueries : TopBegin(p, q[1], q[2])
    \/ \E p \in Procs : TopZrevrange(p)
    \/ \E p \in Procs : TopFail(p)
    \/ \E t \in ClockValues : Tick(t)

Spec == Init /\ [][Next]_vars

\* concurrent ingestion: the Redis calls of two ingest requests interleave
NextConc ==
    \/ \E p \in Procs, e \in ConcEvents : IngestBegin(p, e)
    \/ \E p \in Procs : IngestIncr(p)
    \/ \E p \in Procs : IngestExpireCnt(p)
    \/ \E p \in Procs : IngestPfadd(p)
    \/ \E p \in Procs : IngestExpireHll(p)
    \/ \E p \in Procs : IngestZincrby(p)
    \/ \E p \in Procs : IngestFail(p)
    \/ \E t \in ClockValues : Tick(t)

SpecConc == InitConc /\ [][NextConc]_vars

\* ------------------------------------------------------------ claims
\* the timestamps the model's requests can carry or read from the clock
AllTs == {ts \in {e.ts : e \in Events} \cup {TsOf(c) : c \in ClockValues} : TsInRange(ts)}
Range(s) == {s[i] : i \in 1..Len(s)}
NoDup(s) == Cardinality(Range(s)) = Len(s)
Val(d, k) == IF k \in DOMAIN d THEN d[k].val ELSE 0
\* each tenant's ranking key
TopKeys == [tenant \in Tenants |-> KTop(tenant)]
Score(d, tenant, path) ==
    IF TopKeys[tenant] \in DOMAIN d /\ path \in DOMAIN d[TopKeys[tenant]].val
    THEN d[TopKeys[tenant]].val[path] ELSE 0
Done(p, kind) == pc[p] = "done" /\ ev[p].kind = kind
Ok(p, kind) == Done(p, kind) /\ resp[p].status = "200"
\* every key a tenant's requests can address, and what the store holds under them
KeyTable ==
    [tenant \in Tenants |->
        {KTop(tenant)} \cup {KCnt(tenant, ts) : ts \in AllTs}
            \cup {KHllWrite(tenant, ts) : ts \in AllTs}
            \cup {KHllRead(tenant, ts) : ts \in AllTs}]
KeysOf(tenant) == KeyTable[tenant]
View(d, tenant) == [k \in KeysOf(tenant) \cap DOMAIN d |-> d[k]]
\* slot p takes a step of its handler
StepOf(p) == pc'[p] # pc[p] \/ calls'[p] # calls[p] \/ (nreq' # nreq /\ Takes(p))

\* C1: a minute counter that has not expired and was incremented only by
\* ingests that returned 200 holds exactly the number of those ingests: each
\* successful ingest adds exactly 1, repeated events included.
C1_CounterCountsIngests ==
    \A tk \in DOMAIN ingestOk :
        (tk[2] \notin expiredKeys /\ Count(incrDone, tk[2]) = ingestOk[tk])
            => Val(db, tk[2]) = ingestOk[tk]

C1_Witness ==
    \E tk \in DOMAIN ingestOk :
        /\ ingestOk[tk] = 2
        /\ tk[2] \notin expiredKeys
        /\ Count(incrDone, tk[2]) = 2
        /\ Val(db, tk[2]) = 2

\* C2 (as claimed): a successful top-paths response has at most n entries, in
\* descending order of count, and none when n <= 0.
C2_AtMostN ==
    \A p \in Procs :
        Ok(p, "top") =>
            /\ Len(resp[p].body) <= (IF ev[p].n > 0 THEN ev[p].n ELSE 0)
            /\ \A i \in 1..(Len(resp[p].body) - 1) :
                   resp[p].body[i].count >= resp[p].body[i + 1].count

\* C3: when the pfadd step of an ingest (r.pfadd or its r.expire) raises, the
\* step changes nothing in the store, so the minute counter keeps its
\* increment; the request ends with 500, has issued no zincrby and has issued
\* no call twice.
C3_AbortKeepsCounter ==
    [][\A p \in Procs :
          (ev[p].kind = "ingest" /\ pc[p] \in {"pfadd", "expire_hll"} /\ pc'[p] = "done")
              => /\ db' = db
                 /\ zincrDone' = zincrDone
                 /\ resp'[p].status = "500"
                 /\ "zincrby" \notin Range(calls'[p])
                 /\ NoDup(calls'[p])
                 /\ KCnt(ev[p].tenant, loc[p].ts) \notin expiredKeys
                        => Val(db', KCnt(ev[p].tenant, loc[p].ts)) >= 1]_vars

C3_Witness ==
    \E p \in Procs :
        /\ Done(p, "ingest")
        /\ resp[p].status = "500"
        /\ calls[p] = <<"incr", "expire_cnt", "pfadd">>
        /\ Val(db, KCnt(ev[p].tenant, loc[p].ts)) = 1
        /\ KTop(ev[p].tenant) \notin DOMAIN db

\* C4 (as claimed): once no request is in flight, every store operation that
\* was attempted has been recorded once in REDIS_OPS and once in REDIS_LAT
\* under its label, whether it succeeded or raised.
C4_EveryOpRecorded ==
    (\A p \in Procs : Free(p)) =>
        \A o \in OpLabels : REDIS_OPS[o] = opsAttempted[o] /\ REDIS_LAT[o] = opsAttempted[o]

\* C5 (as claimed): an ingest whose event carries a ts uses the minute and day
\* buckets of that ts, whatever its value.
C5_BucketsFromEventTs ==
    \A p \in Procs :
        (ev[p].kind = "ingest" /\ ev[p].hasTs /\ TsInRange(ev[p].ts)) =>
            /\ KCnt(ev[p].tenant, loc[p].ts) = KCnt(ev[p].tenant, ev[p].ts)
            /\ KHllWrite(ev[p].tenant, loc[p].ts) = KHllWrite(ev[p].tenant, ev[p].ts)

\* C6 (as claimed): a successful stats response has exactly the fields tenant,
\* minute, events_this_minute and unique_users_today.
C6_StatsFields ==
    \A p \in Procs :
        Ok(p, "stats") =>
            DOMAIN resp[p].body
                = {"tenant", "minute", "events_this_minute", "unique_users_today"}

\* C7: no step of an ingest for one tenant changes anything the store holds
\* under the keys of another tenant (ranking, minute counters, daily sets),
\* whether the step succeeds or raises.
C7_TenantIsolation ==
    [][\A p \in Procs : \A a \in Tenants :
          (StepOf(p) /\ ev'[p].kind = "ingest" /\ ev'[p].tenant # a)
              => View(db', a) = View(db, a)]_vars

C7_Witness ==
    /\ Score(db, "a", "/x") = 2
    /\ Score(db, "b", "/x") = 1

\* C8: every path's score in a tenant's ranking is the number of zincrby calls
\* executed for that tenant and path, and a successful top-paths response
\* reports that number for each path it lists.
C8_CountIsZincrbys ==
    /\ \A t \in Tenants : \A path \in Paths :
           Score(db, t, path) = Count(zincrDone, <<t, path>>)
    /\ \A p \in Procs :
           Ok(p, "top") =>
               \A i \in 1..Len(resp[p].body) :
                   resp[p].body[i].count
                       = Count(zincrDone, <<ev[p].tenant, resp[p].body[i].path>>)

C8_Witness ==
    \E p \in Procs :
        /\ Ok(p, "top")
        /\ ev[p].tenant = "a"
        /\ resp[p].body = <<[path |-> "/x", count |-> 2]>>

\* every minute counter key a tenant's requests can address
CntKeys == [tenant \in Tenants |-> {KCnt(tenant, ts) : ts \in AllTs}]
\* no r.incr has executed for the tenant
NeverIngested(tenant) == CntKeys[tenant] \cap DOMAIN incrDone = {}

\* C9: stats for a tenant with no ingested event reports 0 events this minute
\* and answers 200; it answers 500 only when a Redis call raised.
C9_StatsOfUnknownTenant ==
    \A p \in Procs :
        (Done(p, "stats") /\ NeverIngested(ev[p].tenant)) =>
            \/ resp[p].status = "200" /\ resp[p].body.events_this_minure = 0
            \/ resp[p].status = "500" /\ resp[p].body.detail = "ConnectionError"

C9_Witness ==
    \E p \in Procs :
        /\ Ok(p, "stats")
        /\ NeverIngested(ev[p].tenant)
        /\ resp[p].body.events_this_minure = 0
        /\ DOMAIN incrDone # {}

InFlight == Cardinality({p \in Procs : ~Free(p)})

\* C10: each finished request has incremented HTTP_REQS once, under its route,
\* method and the status it returned, and has observed HTTP_LAT once under its
\* route; requests in flight have done neither.
C10_OneHttpObservation ==
    /\ \A r \in Routes : \A st \in {"200", "500"} :
           /\ HTTP_REQS[<<r, Method(r), st>>] = Count(httpReturned, <<r, st>>)
           /\ \A m \in {"GET", "POST"} \ {Method(r)} : HTTP_REQS[<<r, m, st>>] = 0
    /\ \A r \in Routes :
           HTTP_LAT[r] = Count(httpReturned, <<r, "200">>) + Count(httpReturned, <<r, "500">>)
    /\ HTTP_LAT["/ingest"] + HTTP_LAT["/stats"] + HTTP_LAT["/top-paths"] = nreq - InFlight

C10_Witness ==
    /\ HTTP_REQS[<<"/ingest", "POST", "500">>] = 1
    /\ HTTP_REQS[<<"/stats", "GET", "200">>] = 1
    /\ HTTP_REQS[<<"/top-paths", "GET", "200">>] = 1
    /\ InFlight = 0

\* lines 61-73: the store calls of one ingest, in program order
IngestStoreCalls == <<"incr", "expire_cnt", "pfadd", "expire_hll", "zincrby">>

\* C11: the step that finishes an ingest answers 200 {ok: true} exactly when
\* it is the successful zincrby that follows the four other store calls, each
\* issued once; it answers 500 with the error text when a store call raised
\* (or the timestamp could not be bucketed), leaving the store as the calls
\* before it left it, and no call is issued twice.
C11_OkIffAllCallsSucceeded ==
    [][\A p \in Procs :
          (ev'[p].kind = "ingest" /\ pc[p] # "done" /\ pc'[p] = "done")
              => /\ resp'[p].status = "200"
                        <=> /\ calls'[p] = IngestStoreCalls
                            /\ nfail' = nfail
                            /\ Score(db', ev'[p].tenant, ev'[p].path)
                                   = Score(db, ev'[p].tenant, ev'[p].path) + 1
                 /\ resp'[p].status = "200" => resp'[p].body = [ok |-> TRUE]
                 /\ resp'[p].status # "200"
                        => /\ resp'[p].status = "500"
                           /\ DOMAIN resp'[p].body = {"detail"}
                           /\ resp'[p].body.detail \in {"ConnectionError", "ValueError"}
                           /\ resp'[p].body.detail = "ConnectionError" <=> nfail' = nfail + 1
                           /\ db' = db
                 /\ calls'[p] = SubSeq(IngestStoreCalls, 1, Len(calls'[p]))]_vars

C11_Witness ==
    \E p \in Procs :
        /\ Done(p, "ingest")
        /\ resp[p].status = "500"
        /\ resp[p].body.detail = "ConnectionError"
        /\ calls[p] = IngestStoreCalls
        /\ Val(db, KCnt(ev[p].tenant, loc[p].ts)) = 1
        /\ Score(db, ev[p].tenant, ev[p].path) = 0

\* C12: when r.expire(k_cnt) raises after r.incr(k_cnt) has executed, the
\* request ends with 500 and the failing step changes nothing in the store:
\* the counter still holds every increment executed on it, this request's
\* included.
C12_ExpireFailureKeepsIncrement ==
    [][\A p \in Procs :
          (ev[p].kind = "ingest" /\ pc[p] = "expire_cnt" /\ pc'[p] = "done")
              => /\ resp'[p].status = "500"
                 /\ calls'[p] = <<"incr", "expire_cnt">>
                 /\ db' = db
                 /\ incrDone' = incrDone
                 /\ KCnt(ev[p].tenant, loc[p].ts) \notin expiredKeys
                        => /\ KCnt(ev[p].tenant, loc[p].ts) \in DOMAIN db'
                           /\ db'[KCnt(ev[p].tenant, loc[p].ts)].val
                                  = Count(incrDone, KCnt(ev[p].tenant, loc[p].ts))]_vars

C12_Witness ==
    \E p \in Procs :
        /\ Done(p, "ingest")
        /\ resp[p].status = "500"
        /\ calls[p] = <<"incr", "expire_cnt">>
        /\ KCnt(ev[p].tenant, loc[p].ts) \notin expiredKeys
        /\ Val(db, KCnt(ev[p].tenant, loc[p].ts)) = 2

\* every daily distinct-user key ingest can write (line 56) and stats can read (line 99)
HllWriteKeys == {KHllWrite(t, ts) : t \in Tenants, ts \in AllTs}
HllReadKeys == {KHllRead(t, ts) : t \in Tenants, ts \in AllTs}

\* C13: the key stats reads for today's distinct users is never a key ingest
\* writes, for any tenants and days; the store never holds a key stats reads,
\* so every successful stats response reports unique_users_today = 0.
C13_ReadsNeverSeeWrites ==
    /\ HllReadKeys \cap HllWriteKeys = {}
    /\ HllReadKeys \cap DOMAIN db = {}
    /\ \A p \in Procs : Ok(p, "stats") => resp[p].body.unique_users_today = 0

C13_Witness ==
    \E p \in Procs :
        /\ Ok(p, "stats")
        /\ resp[p].body.unique_users_today = 0
        /\ KHllWrite(ev[p].tenant, loc[p].ts) \in DOMAIN db
        /\ Cardinality(db[KHllWrite(ev[p].tenant, loc[p].ts)].val) = 2

\* C14 (as claimed): every minute counter key in the store has an expiry at
\* most 3600 s ahead and every daily distinct-user key one at most 172800 s
\* ahead; none is without an expiry.
C14_EveryKeyHasTtl ==
    \A k \in DOMAIN db :
        /\ db[k].type = "string" => db[k].exp # NoExpiry /\ db[k].exp - now <= CNT_TTL
        /\ db[k].type = "hll" => db[k].exp # NoExpiry /\ db[k].exp - now <= HLL_TTL

\* C15: with two ingests interleaving their store calls, no update is lost:
\* every minute counter that has not expired holds the number of r.incr calls
\* executed on its key, and every path's score is the number of r.zincrby
\* calls executed for its tenant and path.
C15_NoLostUpdate ==
    /\ \A k \in DOMAIN incrDone :
           k \notin expiredKeys => k \in DOMAIN db /\ db[k].val = incrDone[k]
    /\ \A t \in Tenants : \A path \in Paths :
           Score(db, t, path) = Count(zincrDone, <<t, path>>)

C15_Witness ==
    /\ pc[1] = "expire_cnt"
    /\ pc[2] = "zincrby"
    /\ KCnt(ev[1].tenant, loc[1].ts) = KCnt(ev[2].tenant, loc[2].ts)
    /\ Val(db, KCnt(ev[1].tenant, loc[1].ts)) = 3
    /\ Score(db, ev[1].tenant, "/x") = 1

\* the sum of the counts f holds under the keys in ks
RECURSIVE SumOver(_, _)
SumOver(f, ks) ==
    IF ks = {} THEN 0
    ELSE LET k == CHOOSE x \in ks : TRUE
         IN f[k] + SumOver(f, ks \ {k})

\* C16: EVENTS_INGESTED for a tenant is the number of that tenant's ingests
\* that returned 200, and over all tenants it is the number of 200 responses
\* of /ingest; a request in which a store call raised, or still in flight,
\* has not incremented it.
C16_MetricCountsOkIngests ==
    /\ \A t \in Tenants :
           EVENTS_INGESTED[t] = SumOver(ingestOk, {tk \in DOMAIN ingestOk : tk[1] = t})
    /\ SumOver(EVENTS_INGESTED, Tenants) = Count(httpReturned, <<"/ingest", "200">>)

C16_Witness ==
    \E p \in Procs :
        /\ Done(p, "ingest")
        /\ resp[p].status = "500"
        /\ calls[p] = IngestStoreCalls
        /\ ev[p].tenant = "a"
        /\ EVENTS_INGESTED["a"] = 2

\* C17: no step of any request, and no passage of time, removes a tenant's
\* ranking key, gives it an expiry or lowers a score in it: once created the
\* key stays, without expiry, and each path's score never decreases.
C17_RankingPersists ==
    [][\A t \in Tenants :
          /\ TopKeys[t] \in DOMAIN db' => db'[TopKeys[t]].exp = NoExpiry
          /\ TopKeys[t] \in DOMAIN db
                 => /\ TopKeys[t] \in DOMAIN db'
                    /\ \A m \in DOMAIN db[TopKeys[t]].val :
                           /\ m \in DOMAIN db'[TopKeys[t]].val
                           /\ db'[TopKeys[t]].val[m] >= db[TopKeys[t]].val[m]]_vars

C17_Witness ==
    /\ Score(db, "a", "/x") = 2
    /\ now = BaseTime + CNT_TTL
    /\ \E k \in expiredKeys : k \in KeysOf("a")
    /\ \E p \in Procs : Done(p, "ingest") /\ ev[p].tenant = "a" /\ resp[p].status = "500"

\* n and the server minute as the last-read record holds them
ReadN(p) == IF ev[p].kind = "top" THEN ev[p].n ELSE 0
ReadMinute(p) == IF ev[p].kind = "stats" THEN utc_minute_key(loc[p].ts) ELSE ""

\* C18: no step of a stats or top-paths request, successful or failing,
\* changes the store; and when such a request is answered 200 and the last
\* read answered before it was the same request in the same server minute,
\* with no ingest step and no clock tick since, it returns the same body.
C18_ReadsAreReadOnly ==
    [][\A p \in Procs :
          /\ (StepOf(p) /\ ev'[p].kind \in {"stats", "top"})
                 => db' = db /\ expiredKeys' = expiredKeys
          /\ (/\ ev[p].kind \in {"stats", "top"}
              /\ pc[p] # "done" /\ pc'[p] = "done"
              /\ resp'[p].status = "200"
              /\ SameRead(ev[p].kind, ev[p].tenant, ReadN(p), ReadMinute(p)))
                 => resp'[p].body = lastRead.body]_vars

C18_Witness ==
    /\ lastRead.kind = "stats"
    /\ lastRead.seen = 2
    /\ lastRead.body.events_this_minure = 1
    /\ \E p \in Procs : Ok(p, "stats") /\ resp[p].body = lastRead.body

====
